---------------------------- MODULE Spec2Model ----------------------------
(***************************************************************************)
(* Model of the baseball statistics backend (server/utils.py, server/db.py *)
(* and the routes of server/__init__.py).                                   *)
(*                                                                         *)
(* State: the two PostgreSQL tables (players, player_descriptions), the    *)
(* SERIAL sequence of players.id, the position and locals of every caller  *)
(* that is inside sync_players_from_api, and a record of the operation     *)
(* that has just completed (what it was given, what it returned or        *)
(* raised, the connections it left open), kept until its caller has taken  *)
(* the result, and the response of the last sync() while no other          *)
(* operation has completed since.                                          *)
(*                                                                         *)
(* One step is one SQL statement: every statement of utils.py runs on a    *)
(* connection of its own or in READ COMMITTED, and every write commits at  *)
(* once, so callers interleave between statements.                         *)
(***************************************************************************)
EXTENDS Integers, Sequences, FiniteSets, TLC

VARIABLES players, descriptions, next_id, run, last, prev

vars == <<players, descriptions, next_id, run, last, prev>>

---------------------------------------------------------------------------
(* Bounds of the model *)

\* Rows the players table may hold before the first operation.
MaxRows == 2

\* Callers that may be inside an operation at the same time (SpecRace).
NumCallers == 2

\* Rows that may have a cached description before the first operation.
MaxCached == 1

---------------------------------------------------------------------------
(* Python values.  A value is [t, v]: t its Python type, v an integer:      *)
(* the int, the float in ten-thousandths, 0/1 for a bool, the index of a    *)
(* str in Strings.                                                          *)

\* float values are kept in ten-thousandths, one digit more than the
\* DECIMAL(5, 3) columns hold.
Scale == 10000

\* The strings that occur; num says whether float() parses the text and val
\* is the parsed value in ten-thousandths.
Strings ==
  << [s |-> "",            num |-> FALSE, val |-> 0],
     [s |-> "Babe Ruth",   num |-> FALSE, val |-> 0],
     [s |-> "Hank Aaron",  num |-> FALSE, val |-> 0],
     [s |-> "Willie Mays", num |-> FALSE, val |-> 0],
     [s |-> "RF",          num |-> FALSE, val |-> 0],
     [s |-> "CF",          num |-> FALSE, val |-> 0],
     [s |-> "n/a",         num |-> FALSE, val |-> 0],
     [s |-> "0.342",       num |-> TRUE,  val |-> 3420],
     [s |-> "0.474",       num |-> TRUE,  val |-> 4740],
     [s |-> "0.690",       num |-> TRUE,  val |-> 6900],
     [s |-> "1.164",       num |-> TRUE,  val |-> 11640],
     [s |-> "0.3055",      num |-> TRUE,  val |-> 3055],
     [s |-> "0.374",       num |-> TRUE,  val |-> 3740],
     [s |-> "0.555",       num |-> TRUE,  val |-> 5550],
     [s |-> "0.928",       num |-> TRUE,  val |-> 9280] >>

StrIndex(s) == CHOOSE i \in DOMAIN Strings : Strings[i].s = s

PyInt(n)   == [t |-> "int", v |-> n]
PyFloat(x) == [t |-> "float", v |-> x]
PyStr(s)   == [t |-> "str", v |-> StrIndex(s)]
PyBool(b)  == [t |-> "bool", v |-> IF b THEN 1 ELSE 0]
PyNone     == [t |-> "null", v |-> 0]

\* Python truthiness, as `if x:` and `not x` use it.
Truthy(x) ==
  CASE x.t = "null" -> FALSE
    [] x.t = "str"  -> Strings[x.v].s # ""
    [] OTHER        -> x.v # 0

Min(S) == CHOOSE x \in S : \A y \in S : x <= y
Max(S) == CHOOSE x \in S : \A y \in S : x >= y
Abs(n) == IF n < 0 THEN -n ELSE n

\* Python float(x): a number converts, a numeric text parses, any other text
\* raises ValueError and None raises TypeError.
float(x) ==
  CASE x.t = "float" -> [ok |-> TRUE, val |-> x, exc |-> "none"]
    [] x.t \in {"int", "bool"} ->
         [ok |-> TRUE, val |-> PyFloat(x.v * Scale), exc |-> "none"]
    [] x.t = "str" ->
         IF Strings[x.v].num
           THEN [ok |-> TRUE, val |-> PyFloat(Strings[x.v].val), exc |-> "none"]
           ELSE [ok |-> FALSE, val |-> PyNone, exc |-> "ValueError"]
    [] OTHER -> [ok |-> FALSE, val |-> PyNone, exc |-> "TypeError"]

---------------------------------------------------------------------------
(* Record Model: BaseballPlayer *)

\* The keyword arguments of from_raw in the order Python evaluates them, and
\* the key of the API payload each is read from.
FieldOrder ==
  << "player_name", "position", "games", "at_bats", "runs", "hits",
     "doubles", "triples", "home_runs", "rbis", "walks", "strikeouts",
     "stolen_bases", "caught_stealing", "batting_average",
     "on_base_percentage", "slugging_percentage", "ops" >>

RawKeyOrder ==
  << "Player name", "position", "Games", "At-bat", "Runs", "Hits",
     "Double (2B)", "third baseman", "home run", "run batted in", "a walk",
     "Strikeouts", "stolen base", "Caught stealing", "AVG",
     "On-base Percentage", "Slugging Percentage", "On-base Plus Slugging" >>

TextFields  == {"player_name", "position"}
CountFields == {"games", "at_bats", "runs", "hits", "doubles", "triples",
                "home_runs", "rbis", "walks", "strikeouts", "stolen_bases",
                "caught_stealing"}
RateFields  == {"batting_average", "on_base_percentage",
                "slugging_percentage", "ops"}
StatFields  == CountFields \cup RateFields
ObjFields   == {"id", "is_edited"} \cup TextFields \cup StatFields

FieldIndex(f) == CHOOSE k \in DOMAIN FieldOrder : FieldOrder[k] = f
RawKey(f)     == RawKeyOrder[FieldIndex(f)]

\* BaseballPlayer(): the dataclass defaults.  id None is "not saved".
DefaultPlayer ==
  [f \in ObjFields |->
     CASE f = "id"          -> PyNone
       [] f = "is_edited"   -> PyBool(FALSE)
       [] f \in TextFields  -> PyStr("")
       [] f \in CountFields -> PyInt(0)
       [] OTHER             -> PyFloat(0)]

\* What evaluating the k-th keyword argument of from_raw raises: KeyError
\* for an absent key; for the four rate fields whatever float() raises.  The
\* other fields are taken as they come.
RawFailure(raw, k) ==
  IF RawKeyOrder[k] \notin DOMAIN raw THEN "KeyError"
  ELSE IF FieldOrder[k] \in RateFields THEN float(raw[RawKeyOrder[k]]).exc
  ELSE "none"

from_raw(raw) ==
  LET bad == {k \in DOMAIN FieldOrder : RawFailure(raw, k) # "none"} IN
  IF bad # {}
    THEN [ok |-> FALSE, exc |-> RawFailure(raw, Min(bad)),
          key |-> RawKeyOrder[Min(bad)], player |-> DefaultPlayer]
    ELSE [ok |-> TRUE, exc |-> "none", key |-> "",
          player |->
            [f \in ObjFields |->
               CASE f \in {"id", "is_edited"} -> DefaultPlayer[f]
                 [] f \in RateFields          -> float(raw[RawKey(f)]).val
                 [] OTHER                     -> raw[RawKey(f)]]]

---------------------------------------------------------------------------
(* Storage: the schema of init_db and the statements of utils.py *)

\* VARCHAR(255), VARCHAR(10) and the range of INTEGER and DECIMAL(5, 3).
NameLen     == 255
PositionLen == 10
IntegerMax  == 2147483647
DecimalMax  == 100000

\* A value bound to a VARCHAR(n) NOT NULL column.  The text fields of the
\* objects of this model hold a str or None.
ToVarchar(x, n) ==
  CASE x.t = "null" -> [ok |-> FALSE, exc |-> "IntegrityError", val |-> ""]
    [] x.t = "str"  ->
         IF Len(Strings[x.v].s) > n
           THEN [ok |-> FALSE, exc |-> "DataError", val |-> ""]
           ELSE [ok |-> TRUE, exc |-> "none", val |-> Strings[x.v].s]

\* Rounding to the nearest multiple of unit, halves away from zero, as
\* PostgreSQL rounds a numeric to fewer digits.
RoundDiv(x, unit) ==
  IF x >= 0 THEN (2 * x + unit) \div (2 * unit)
            ELSE -((2 * (-x) + unit) \div (2 * unit))

\* A value bound to an INTEGER NOT NULL column: an int is stored as it is,
\* negative or not (no CHECK constraint), a float is rounded, a numeric text
\* is read as a number, any other text is rejected, None violates NOT NULL
\* and a bool has no assignment cast to integer.
ToInteger(x) ==
  LET fits(n) == IF Abs(n) <= IntegerMax
                   THEN [ok |-> TRUE, exc |-> "none", val |-> n]
                   ELSE [ok |-> FALSE, exc |-> "DataError", val |-> 0]
  IN CASE x.t = "int"   -> fits(x.v)
       [] x.t = "float" -> fits(RoundDiv(x.v, Scale))
       [] x.t = "str"   ->
            IF Strings[x.v].num /\ Strings[x.v].val % Scale = 0
              THEN fits(Strings[x.v].val \div Scale)
              ELSE [ok |-> FALSE, exc |-> "DataError", val |-> 0]
       [] x.t = "null"  -> [ok |-> FALSE, exc |-> "IntegrityError", val |-> 0]
       [] OTHER         -> [ok |-> FALSE, exc |-> "ProgrammingError", val |-> 0]

\* A value bound to a DECIMAL(5, 3) NOT NULL column: rounded to thousandths
\* (the stored value is in thousandths), rejected from 100.000 on.
ToDecimal(x) ==
  LET fits(n) == IF Abs(n) < DecimalMax
                   THEN [ok |-> TRUE, exc |-> "none", val |-> n]
                   ELSE [ok |-> FALSE, exc |-> "DataError", val |-> 0]
  IN CASE x.t = "int"   -> fits(x.v * (Scale \div 10))
       [] x.t = "float" -> fits(RoundDiv(x.v, 10))
       [] x.t = "str"   ->
            IF Strings[x.v].num
              THEN fits(RoundDiv(Strings[x.v].val, 10))
              ELSE [ok |-> FALSE, exc |-> "DataError", val |-> 0]
       [] x.t = "null"  -> [ok |-> FALSE, exc |-> "IntegrityError", val |-> 0]
       [] OTHER         -> [ok |-> FALSE, exc |-> "ProgrammingError", val |-> 0]

\* A value bound to is_edited BOOLEAN DEFAULT FALSE: the column is nullable,
\* so None is stored as NULL.  The cell keeps the Python shape of the value.
ToBoolean(x) ==
  CASE x.t \in {"bool", "null"} -> [ok |-> TRUE, exc |-> "none", val |-> x]
    [] OTHER -> [ok |-> FALSE, exc |-> "DataError", val |-> PyNone]

\* The column a field of the object is bound to.
ToColumn(f, x) ==
  CASE f = "player_name"  -> ToVarchar(x, NameLen)
    [] f = "position"     -> ToVarchar(x, PositionLen)
    [] f \in CountFields  -> ToInteger(x)
    [] f \in RateFields   -> ToDecimal(x)
    [] OTHER              -> ToBoolean(x)

RowFields == ObjFields \ {"id"}

\* The row the server makes of the bound values of an INSERT or UPDATE, or
\* the error it raises.  An invalid literal is rejected before a NOT NULL
\* violation is seen.
ToRow(obj) ==
  LET col  == [f \in RowFields |-> ToColumn(f, obj[f])]
      bad  == {f \in RowFields : ~col[f].ok}
      data == {f \in bad : col[f].exc # "IntegrityError"}
  IN IF bad = {}
       THEN [ok |-> TRUE, exc |-> "none",
             row |-> [f \in RowFields |-> col[f].val]]
       ELSE [ok |-> FALSE,
             exc |-> IF data # {} THEN "DataError" ELSE "IntegrityError",
             row |-> <<>>]

\* BaseballPlayer.from_db_row: float() of a DECIMAL(5, 3) cell.
from_db_row(id, row) ==
  [f \in ObjFields |->
     CASE f = "id"          -> PyInt(id)
       [] f = "is_edited"   -> row[f]
       [] f \in TextFields  -> PyStr(row[f])
       [] f \in CountFields -> PyInt(row[f])
       [] OTHER             -> PyFloat(row[f] * (Scale \div 1000))]

\* cursor.execute(sql, params): psycopg2 fills the placeholders on the
\* client, and raises before anything is sent when their number is not the
\* number of parameters.
Placeholders(n, params) ==
  IF n = params THEN "none" ELSE "TypeError"

\* The %s of the INSERT of save_player_to_db and the parameters passed.
InsertPlaceholders == 18
InsertParams       == 19
\* The %s of the UPDATE of update_player_in_db and the parameters passed.
UpdatePlaceholders == 20
UpdateParams       == 20

\* utils.py names RealDictCursor in get_all_players_from_db and in
\* get_player_by_id and imports only get_db_connection: the name is unbound
\* and evaluating it raises NameError.
RealDictCursorBound == FALSE

\* The result of a storage call: what it raised, what it returned, the
\* tables afterwards, the statements it sent and the connections it opened
\* and did not close.
Result(exc, ret, db, seq, queries, leaked) ==
  [exc |-> exc, ret |-> ret, db |-> db, seq |-> seq,
   queries |-> queries, leaked |-> leaked]

\* save_player_to_db(player): INSERT ... RETURNING id.
save_player_to_db(db, seq, obj) ==
  LET sent == Placeholders(InsertPlaceholders, InsertParams)
  IN IF sent # "none"
       THEN Result(sent, 0, db, seq, 0, 1)
     ELSE LET new == ToRow(obj)
          IN IF ~new.ok
               THEN Result(new.exc, 0, db,
                           IF new.exc = "IntegrityError" THEN seq + 1 ELSE seq,
                           1, 1)
               ELSE Result("none", seq,
                           [i \in DOMAIN db \cup {seq} |->
                              IF i = seq THEN new.row ELSE db[i]],
                           seq + 1, 1, 0)

\* update_player_in_db(player): UPDATE ... WHERE id = player.id; returns
\* whether a row was matched.
update_player_in_db(db, seq, obj) ==
  LET sent == Placeholders(UpdatePlaceholders, UpdateParams)
      new  == ToRow(obj)
  IN IF ~Truthy(obj.id)
       THEN Result("ValueError", FALSE, db, seq, 0, 0)
     ELSE IF sent # "none"
       THEN Result(sent, FALSE, db, seq, 0, 1)
     ELSE IF ~new.ok
       THEN Result(new.exc, FALSE, db, seq, 1, 1)
     ELSE IF obj.id.v \in DOMAIN db
       THEN Result("none", TRUE, [db EXCEPT ![obj.id.v] = new.row], seq, 1, 0)
     ELSE Result("none", FALSE, db, seq, 1, 0)

\* get_player_by_id(player_id): the object of the row, or None (id None).
get_player_by_id(db, seq, id) ==
  IF ~RealDictCursorBound
    THEN Result("NameError", DefaultPlayer, db, seq, 0, 1)
  ELSE IF id \in DOMAIN db
    THEN Result("none", from_db_row(id, db[id]), db, seq, 1, 0)
  ELSE Result("none", DefaultPlayer, db, seq, 1, 0)

\* The orders in which SELECT * FROM players ORDER BY col DESC may return
\* the rows: every row once, col never increasing; rows that tie come in
\* any order.
OrderedBy(db, col) ==
  {s \in [1..Cardinality(DOMAIN db) -> DOMAIN db] :
     /\ \A i, j \in DOMAIN s : i # j => s[i] # s[j]
     /\ \A i, j \in DOMAIN s : i < j => db[s[i]][col] >= db[s[j]][col]}

\* The sort column get_all_players_from_db orders by: any key other than
\* hits and home_runs is replaced by hits.
SortColumn(sort_by) ==
  IF sort_by \in {"hits", "home_runs"} THEN sort_by ELSE "hits"

\* get_all_players_from_db(sort_by): the possible results, ret the ids of
\* the rows in the order returned.
get_all_players_from_db(db, seq, sort_by) ==
  IF ~RealDictCursorBound
    THEN {Result("NameError", <<>>, db, seq, 0, 1)}
    ELSE {Result("none", s, db, seq, 1, 0) : s \in OrderedBy(db, SortColumn(sort_by))}

\* get_player_description(player_id): the cached text, or None.
get_player_description(descs, id) ==
  IF id \in DOMAIN descs THEN [found |-> TRUE, text |-> descs[id]]
                         ELSE [found |-> FALSE, text |-> ""]

\* save_player_description(player_id, description): INSERT ... ON CONFLICT
\* (player_id) DO UPDATE; player_id REFERENCES players(id).
save_player_description(db, descs, id, text) ==
  IF id \notin DOMAIN db
    THEN [exc |-> "IntegrityError", descs |-> descs, leaked |-> 1]
    ELSE [exc |-> "none", leaked |-> 0,
          descs |-> [i \in DOMAIN descs \cup {id} |->
                       IF i = id THEN text ELSE descs[i]]]

\* What generate_player_description can come to: the stripped text of the
\* completion (which may be empty), a failed request, or ValueError when
\* OPENAI_API_KEY is not set (raised before any request is made).
GenOutcomes ==
  { [exc |-> "none", text |-> "The Sultan of Swat.", called |-> 1],
    [exc |-> "none", text |-> "", called |-> 1],
    [exc |-> "RequestException", text |-> "", called |-> 1],
    [exc |-> "ValueError", text |-> "", called |-> 0] }

\* get_or_generate_player_description(player_id), g being what generation
\* comes to if it is reached.  gens counts the requests to the generator.
get_or_generate_player_description(db, descs, seq, id, g) ==
  LET cached == get_player_description(descs, id)
      got    == get_player_by_id(db, seq, id)
      saved  == save_player_description(db, descs, id, g.text)
      R(exc, text, d, queries, leaked, gens) ==
        [exc |-> exc, text |-> text, descs |-> d, queries |-> queries,
         leaked |-> leaked, gens |-> gens]
  IN IF cached.found /\ cached.text # ""
       THEN R("none", cached.text, descs, 1, 0, 0)
     ELSE IF got.exc # "none"
       THEN R(got.exc, "", descs, 1 + got.queries, got.leaked, 0)
     ELSE IF ~Truthy(got.ret.id)
       THEN R("ValueError", "", descs, 1 + got.queries, 0, 0)
     ELSE IF g.exc # "none"
       THEN R(g.exc, "", descs, 1 + got.queries, 0, g.called)
     ELSE IF saved.exc # "none"
       THEN R(saved.exc, "", descs, 2 + got.queries, saved.leaked, g.called)
     ELSE R("none", g.text, saved.descs, 2 + got.queries, 0, g.called)

---------------------------------------------------------------------------
(* Routes of server/__init__.py *)

\* The sort keys GET /api/players accepts.
RouteSortKeys == {"hits", "home_runs", "hits_per_game"}

\* Fields update_player never sets from the payload.
ComputedFields == {"id", "hits_per_game"}

\* A null of the payload becomes the zero of the field's type.
CoerceNone(f, x) ==
  IF x.t # "null" THEN x
  ELSE CASE f \in CountFields -> PyInt(0)
         [] f \in RateFields  -> PyFloat(0)
         [] f = "is_edited"   -> PyBool(FALSE)
         [] OTHER             -> x

\* The object update_player writes: every payload key that is an attribute
\* and not computed is set, then is_edited is set True and id the route's id.
ApplyPayload(obj, id, data) ==
  [f \in ObjFields |->
     CASE f = "id"        -> PyInt(id)
       [] f = "is_edited" -> PyBool(TRUE)
       [] f \in DOMAIN data /\ f \notin ComputedFields -> CoerceNone(f, data[f])
       [] OTHER           -> obj[f]]

\* PUT /api/players/<id> with JSON body data: the status of the response and
\* the storage call that decided it.
update_player(db, seq, id, data) ==
  LET got == get_player_by_id(db, seq, id)
      R(status, r, queries, leaked) ==
        [status |-> status, exc |-> r.exc, db |-> r.db,
         queries |-> queries, leaked |-> leaked]
  IN IF got.exc # "none" THEN R(500, got, got.queries, got.leaked)
     ELSE IF ~Truthy(got.ret.id) THEN R(404, got, got.queries, 0)
     ELSE IF DOMAIN data = {} THEN R(400, got, got.queries, 0)
     ELSE
       LET written ==
             update_player_in_db(db, seq, ApplyPayload(got.ret, id, data))
       IN IF written.exc = "ValueError"
            THEN R(400, written, got.queries + written.queries, written.leaked)
          ELSE IF written.exc # "none" \/ ~written.ret
            THEN R(500, written, got.queries + written.queries, written.leaked)
          ELSE R(200, written, got.queries + written.queries, 0)

\* GET /api/players?sort_by=...: 400 for a key outside the three, else the
\* possible responses of get_all_players_from_db.
get_players(db, seq, sort_by) ==
  IF sort_by \notin RouteSortKeys
    THEN {[status |-> 400, r |-> Result("none", <<>>, db, seq, 0, 0)]}
    ELSE {[status |-> IF r.exc = "none" THEN 200 ELSE 500, r |-> r] :
            r \in get_all_players_from_db(db, seq, sort_by)}

---------------------------------------------------------------------------
(* External Fetch *)

\* fetch_baseball_players_from_api(): src is the response of the API, ok
\* for a success status with a JSON body.  The first element from_raw
\* raises on ends the fetch: KeyError and TypeError are re-raised as
\* ValueError naming the cause; the ValueError of float() passes as it is.
fetch_baseball_players_from_api(src) ==
  LET bad == {i \in DOMAIN src.body : ~from_raw(src.body[i]).ok} IN
  IF ~src.ok
    THEN [ok |-> FALSE, exc |-> "RequestException", cause |-> "none",
          key |-> "", players |-> <<>>]
  ELSE IF bad # {}
    THEN [ok |-> FALSE, exc |-> "ValueError",
          cause |-> from_raw(src.body[Min(bad)]).exc,
          key |-> from_raw(src.body[Min(bad)]).key, players |-> <<>>]
  ELSE [ok |-> TRUE, exc |-> "none", cause |-> "none", key |-> "",
        players |-> [i \in DOMAIN src.body |-> from_raw(src.body[i]).player]]

---------------------------------------------------------------------------
(* Inputs *)

Ints(seq) == [i \in DOMAIN seq |-> PyInt(seq[i])]
Strs(seq) == [i \in DOMAIN seq |-> PyStr(seq[i])]

\* An element of the API's JSON array: name, position, the twelve counting
\* statistics and the four rate statistics under the API's keys.
RawRecord(name, pos, counts, rates) ==
  [key \in {RawKeyOrder[k] : k \in DOMAIN RawKeyOrder} |->
     LET k == CHOOSE j \in DOMAIN RawKeyOrder : RawKeyOrder[j] = key IN
     IF k = 1 THEN PyStr(name)
     ELSE IF k = 2 THEN PyStr(pos)
     ELSE IF k <= 14 THEN counts[k - 2]
     ELSE rates[k - 14]]

Without(raw, key) == [k \in DOMAIN raw \ {key} |-> raw[k]]

RuthRaw ==
  RawRecord("Babe Ruth", "RF",
            Ints(<<2503, 8399, 2174, 2873, 506, 136, 714, 2213, 2062, 1330, 123, 117>>),
            Strs(<<"0.342", "0.474", "0.690", "1.164">>))

\* The same player with one more game played.
RuthRawLater ==
  [RuthRaw EXCEPT !["Games"] = PyInt(2504), !["Hits"] = PyInt(2874)]

AaronRaw ==
  RawRecord("Hank Aaron", "RF",
            Ints(<<3298, 12364, 2174, 3771, 624, 98, 755, 2297, 1402, 1383, 240, 73>>),
            Strs(<<"0.3055", "0.374", "0.555", "0.928">>))

\* The responses of the statistics API.
Sources ==
  << [ok |-> TRUE,  body |-> <<RuthRaw>>],
     [ok |-> TRUE,  body |-> <<RuthRaw, AaronRaw>>],
     [ok |-> TRUE,  body |-> <<Without(RuthRaw, "third baseman")>>],
     [ok |-> TRUE,  body |-> <<AaronRaw, [RuthRaw EXCEPT !["Games"] = PyStr("n/a")]>>],
     [ok |-> TRUE,  body |-> <<[RuthRaw EXCEPT !["AVG"] = PyStr("n/a")]>>],
     [ok |-> TRUE,  body |-> <<RuthRaw, RuthRawLater>>],
     [ok |-> TRUE,  body |-> <<>>],
     [ok |-> FALSE, body |-> <<>>],
     [ok |-> TRUE,  body |-> <<AaronRaw, Without(RuthRaw, "a walk")>>],
     [ok |-> TRUE,  body |-> <<[RuthRaw EXCEPT !["Strikeouts"] = PyInt(-1)]>>],
     [ok |-> TRUE,  body |-> <<[RuthRaw EXCEPT !["On-base Percentage"] = PyNone]>>] >>

\* The responses a racing sync() reads.
RaceSources == {1, 2}

\* The rows storage may hold at the start: row i is the i-th of these
\* players, with statistics of an earlier date, edited or not.
StoredNames == <<"Babe Ruth", "Hank Aaron", "Willie Mays">>

StoredCounts ==
  << <<2500, 8390, 2170, 2870, 505, 135, 710, 2210, 2060, 1329, 122, 116>>,
     <<3290, 12360, 2170, 3770, 620, 97, 750, 2290, 1400, 1380, 239, 72>>,
     <<2992, 10881, 2062, 3283, 523, 140, 660, 1903, 1464, 1526, 338, 103>> >>

StoredRates ==
  << <<342, 474, 690, 1164>>, <<305, 374, 555, 928>>, <<302, 384, 557, 941>> >>

StoredRow(i, edited) ==
  [f \in RowFields |->
     CASE f = "player_name"  -> StoredNames[i]
       [] f = "position"     -> IF i = 3 THEN "CF" ELSE "RF"
       [] f = "is_edited"    -> PyBool(edited)
       [] f \in CountFields  -> StoredCounts[i][FieldIndex(f) - 2]
       [] OTHER              -> StoredRates[i][FieldIndex(f) - 14]]

\* The cached descriptions storage may hold at the start.
StoredTexts == {"", "The Bambino."}

\* The objects a caller passes to update_player_in_db and save_player_to_db:
\* row i as stored, with fields changed.
Edited(i, changes) ==
  [f \in ObjFields |->
     IF f \in DOMAIN changes THEN changes[f]
     ELSE from_db_row(i, StoredRow(i, TRUE))[f]]

EditObjects ==
  << Edited(1, "home_runs" :> PyInt(715)),
     Edited(1, "player_name" :> PyStr("Hank Aaron")),
     Edited(1, "is_edited" :> PyBool(FALSE)),
     Edited(2, "hits" :> PyInt(3772)),
     Edited(1, "id" :> PyNone),
     Edited(3, "hits" :> PyInt(3284)),
     Edited(1, "games" :> PyNone) >>

\* The edits that race a sync().
RaceEdits == {1, 2}

CreateObjects ==
  << Edited(3, ("id" :> PyNone) @@ ("is_edited" :> PyBool(FALSE))),
     Edited(1, ("id" :> PyNone) @@ ("is_edited" :> PyBool(FALSE))) >>

\* The JSON bodies of PUT /api/players/<id>.
Payloads ==
  << "home_runs" :> PyInt(715),
     ("games" :> PyNone) @@ ("batting_average" :> PyNone) @@ ("is_edited" :> PyNone),
     "player_name" :> PyStr("Hank Aaron"),
     ("id" :> PyInt(9)) @@ ("hits_per_game" :> PyFloat(11478)) @@ ("hits" :> PyInt(2874)),
     <<>> >>

SortKeys == <<"hits", "home_runs", "hits_per_game", "games",
              "home_runs; DROP TABLE players">>

---------------------------------------------------------------------------
(* State *)

Callers == 1..NumCallers

\* A caller outside sync_players_from_api.
Idle ==
  [pc |-> "idle", src |-> 0, i |-> 0, existing |-> 0, was_edited |-> PyNone,
   open |-> 0, tracked |-> FALSE, rerun |-> FALSE, before |-> <<>>,
   was_empty |-> FALSE]

\* No operation has completed whose result is not yet taken.
NoOp ==
  [op |-> "none", a |-> 0, b |-> 0, exc |-> "none", stage |-> "", key |-> "",
   status |-> 0, ret |-> FALSE, rows |-> <<>>, text |-> "", pre |-> "",
   queries |-> 0, leaked |-> 0, gens |-> 0, writes |-> 0, rerun |-> FALSE,
   was_empty |-> FALSE]

Init ==
  /\ \E S \in SUBSET (1..MaxRows) : \E e \in [S -> BOOLEAN] :
       /\ players = [i \in S |-> StoredRow(i, e[i])]
       /\ next_id = Max(S \cup {0}) + 1
       /\ \E T \in SUBSET (S \cap 1..MaxCached) : \E d \in [T -> StoredTexts] :
            descriptions = d
  /\ run = [p \in Callers |-> Idle]
  /\ last = NoOp
  /\ prev = 0

---------------------------------------------------------------------------
(* Reconciliation: sync_players_from_api *)

\* What fetch_baseball_players_from_api makes of each response.
Fetched == [k \in DOMAIN Sources |-> fetch_baseball_players_from_api(Sources[k])]

\* The fetched record caller p is at.
Player(p) == Fetched[run[p].src].players[run[p].i]

\* SELECT ... FROM players WHERE player_name = %s: the ids of the rows the
\* statement matches (None matches nothing); fetchone() takes one of them.
MatchingIds(db, name) ==
  {id \in DOMAIN db : name.t = "str" /\ db[id].player_name = Strings[name.v].s}

\* The merge without line 286: the fetched record keeps its own is_edited.
SyncMerged_FlagNotCarried(player, existing, was_edited) ==
  [player EXCEPT !.id = PyInt(existing)]

\* The object sync writes over an existing row: the fetched record under the
\* row's id, with the is_edited that was read.
SyncMerged(player, existing, was_edited) ==
  [player EXCEPT !.id = PyInt(existing), !.is_edited = was_edited]

\* The record of a sync() that ends.
SyncDone(r, exc, stage, key, leaked, writes) ==
  [NoOp EXCEPT !.op = "sync", !.a = r.src, !.exc = exc, !.stage = stage,
               !.key = key, !.leaked = leaked, !.writes = writes,
               !.rerun = r.rerun, !.was_empty = r.was_empty]

\* The locals of a sync() of response k that begins now.  A tracked call
\* remembers whether it repeats the sync() before it, and the rows it found.
SyncBegun(k, track) ==
  [Idle EXCEPT !.src = k,
               !.tracked = track,
               !.rerun = (track /\ prev = k),
               !.before = IF track /\ prev = k THEN players ELSE <<>>,
               !.was_empty = (DOMAIN players = {})]

\* Lines 271-273: the fetch, then the connection and cursor of the loop.  A
\* failed fetch ends the call before any connection is opened; an empty
\* list goes straight to conn.close().
SyncFetch(p, k, track) ==
  /\ run[p].pc = "idle"
  /\ last = NoOp
  /\ \E got \in {Fetched[k]}, begun \in {SyncBegun(k, track)} :
       IF ~got.ok
         THEN /\ last' = SyncDone(begun, got.exc, "fetch", got.key, 0, 0)
              /\ prev' = IF track THEN k ELSE 0
              /\ run' = run
       ELSE IF got.players = <<>>
         THEN /\ last' = SyncDone(begun, "none", "", "", 0, 0)
              /\ prev' = IF track THEN k ELSE 0
              /\ run' = run
       ELSE /\ last' = last
            /\ prev' = prev
            /\ run' = [run EXCEPT ![p] = [begun EXCEPT
                                            !.pc = "select_id", !.i = 1, !.open = 1]]
  /\ UNCHANGED <<players, descriptions, next_id>>

\* Lines 277-280: SELECT id ... WHERE player_name; fetchone().
SyncSelectId(p) ==
  /\ run[p].pc = "select_id"
  /\ \E ids \in {MatchingIds(players, Player(p).player_name)} :
       IF ids = {}
         THEN run' = [run EXCEPT ![p].pc = "insert"]
         ELSE \E id \in ids :
                run' = [run EXCEPT ![p].pc = "select_edited", ![p].existing = id]
  /\ UNCHANGED <<players, descriptions, next_id, last, prev>>

\* Lines 282-283: SELECT is_edited ... WHERE player_name; fetchone()[0].
\* When no row bears the name any more fetchone() is None and the subscript
\* raises TypeError, the connection of the loop left open.
SyncSelectEdited(p) ==
  /\ run[p].pc = "select_edited"
  /\ \E ids \in {MatchingIds(players, Player(p).player_name)} :
       IF ids = {}
         THEN /\ run' = [run EXCEPT ![p] = Idle]
              /\ last' = SyncDone(run[p], "TypeError", "select_edited", "",
                                  run[p].open, run[p].i - 1)
              /\ prev' = IF run[p].tracked THEN run[p].src ELSE 0
         ELSE /\ \E id \in ids :
                   run' = [run EXCEPT ![p].pc = "update",
                                      ![p].was_edited = players[id].is_edited]
              /\ UNCHANGED <<last, prev>>
  /\ UNCHANGED <<players, descriptions, next_id>>

\* The loop moves to the next record, or ends with conn.close().  Every
\* record before the one the loop is at has been written.
SyncAdvance(p) ==
  IF run[p].i < Len(Fetched[run[p].src].players)
    THEN /\ run' = [run EXCEPT ![p].pc = "select_id", ![p].i = @ + 1,
                               ![p].existing = 0, ![p].was_edited = PyNone]
         /\ UNCHANGED <<last, prev>>
    ELSE /\ run' = [run EXCEPT ![p] = Idle]
         /\ last' = SyncDone(run[p], "none", "", "", 0, run[p].i)
         /\ prev' = IF run[p].tracked THEN run[p].src ELSE 0

\* A write of the loop raises: the call ends, the connection of the loop and
\* the one of the write left open.
SyncAbort(p, r, stage) ==
  /\ run' = [run EXCEPT ![p] = Idle]
  /\ last' = SyncDone(run[p], r.exc, stage, "", run[p].open + r.leaked, run[p].i - 1)
  /\ prev' = IF run[p].tracked THEN run[p].src ELSE 0

\* Lines 285-287: update_player_in_db(player).
SyncUpdate(p) ==
  /\ run[p].pc = "update"
  /\ \E r \in {update_player_in_db(players, next_id,
                 SyncMerged(Player(p), run[p].existing, run[p].was_edited))} :
        /\ players' = r.db
        /\ IF r.exc # "none" THEN SyncAbort(p, r, "update")
                             ELSE SyncAdvance(p)
  /\ UNCHANGED <<descriptions, next_id>>

\* Line 290: save_player_to_db(player).
SyncInsert(p) ==
  /\ run[p].pc = "insert"
  /\ \E r \in {save_player_to_db(players, next_id, Player(p))} :
        /\ players' = r.db
        /\ next_id' = r.seq
        /\ IF r.exc # "none" THEN SyncAbort(p, r, "insert")
                             ELSE SyncAdvance(p)
  /\ UNCHANGED descriptions

---------------------------------------------------------------------------
(* The calls that are one statement, or end before their second *)

\* update_player_in_db(EditObjects[k]) called on its own.
UpdatePlayerInDb(k) ==
  /\ last = NoOp
  /\ prev' = 0
  /\ \E r \in {update_player_in_db(players, next_id, EditObjects[k])} :
        /\ players' = r.db
        /\ last' = [NoOp EXCEPT !.op = "update", !.a = k, !.exc = r.exc,
                                !.ret = r.ret, !.queries = r.queries,
                                !.leaked = r.leaked]
  /\ UNCHANGED <<descriptions, next_id, run>>

\* save_player_to_db(CreateObjects[k]) called on its own.
SavePlayerToDb(k) ==
  /\ last = NoOp
  /\ prev' = 0
  /\ \E r \in {save_player_to_db(players, next_id, CreateObjects[k])} :
        /\ players' = r.db
        /\ next_id' = r.seq
        /\ last' = [NoOp EXCEPT !.op = "create", !.a = k, !.exc = r.exc,
                                !.b = r.ret, !.queries = r.queries,
                                !.leaked = r.leaked]
  /\ UNCHANGED <<descriptions, run>>

\* get_all_players_from_db(SortKeys[k]) called on its own.
GetAllPlayersFromDb(k) ==
  /\ last = NoOp
  /\ prev' = 0
  /\ \E r \in get_all_players_from_db(players, next_id, SortKeys[k]) :
       last' = [NoOp EXCEPT !.op = "list", !.a = k, !.exc = r.exc,
                            !.rows = r.ret, !.queries = r.queries,
                            !.leaked = r.leaked]
  /\ UNCHANGED <<players, descriptions, next_id, run>>

\* GET /api/players?sort_by=SortKeys[k].
GetPlayers(k) ==
  /\ last = NoOp
  /\ prev' = 0
  /\ \E x \in get_players(players, next_id, SortKeys[k]) :
       last' = [NoOp EXCEPT !.op = "get_players", !.a = k, !.status = x.status,
                            !.exc = x.r.exc, !.rows = x.r.ret,
                            !.queries = x.r.queries, !.leaked = x.r.leaked]
  /\ UNCHANGED <<players, descriptions, next_id, run>>

\* PUT /api/players/<id> with body Payloads[k].
UpdatePlayer(id, k) ==
  /\ last = NoOp
  /\ prev' = 0
  /\ \E r \in {update_player(players, next_id, id, Payloads[k])} :
        /\ players' = r.db
        /\ last' = [NoOp EXCEPT !.op = "put", !.a = id, !.b = k,
                                !.status = r.status, !.exc = r.exc,
                                !.queries = r.queries, !.leaked = r.leaked]
  /\ UNCHANGED <<descriptions, next_id, run>>

\* What the cache holds for an identity.
CacheState(descs, id) ==
  IF id \notin DOMAIN descs THEN "absent"
  ELSE IF descs[id] = "" THEN "empty" ELSE "text"

\* get_or_generate_player_description(id), generation coming to g.
GetOrGenerate(id, g) ==
  /\ last = NoOp
  /\ prev' = 0
  /\ \E r \in {get_or_generate_player_description(players, descriptions,
                                                   next_id, id, g)} :
        /\ descriptions' = r.descs
        /\ last' = [NoOp EXCEPT !.op = "describe", !.a = id, !.exc = r.exc,
                                !.text = r.text, !.gens = r.gens,
                                !.stage = g.exc,
                                !.pre = CacheState(descriptions, id),
                                !.queries = r.queries, !.leaked = r.leaked]
  /\ UNCHANGED <<players, next_id, run>>

---------------------------------------------------------------------------
(* Specifications *)

\* The identities a request may name: the rows there may be, and one more.
RequestIds == 1..(MaxRows + 1)

\* The caller of the operation that has completed takes its result.
Return ==
  /\ last # NoOp
  /\ last' = NoOp
  /\ UNCHANGED <<players, descriptions, next_id, run, prev>>

\* No caller is inside sync().
Quiet == \A p \in Callers : run[p].pc = "idle"

\* One caller, one call after the other.
Next ==
  \/ \E k \in DOMAIN Sources : SyncFetch(1, k, TRUE)
  \/ SyncSelectId(1)
  \/ SyncSelectEdited(1)
  \/ SyncUpdate(1)
  \/ SyncInsert(1)
  \/ Quiet /\ \E k \in DOMAIN EditObjects : UpdatePlayerInDb(k)
  \/ Quiet /\ \E k \in DOMAIN CreateObjects : SavePlayerToDb(k)
  \/ Quiet /\ \E k \in DOMAIN SortKeys : GetAllPlayersFromDb(k)
  \/ Quiet /\ \E k \in DOMAIN SortKeys : GetPlayers(k)
  \/ Quiet /\ \E id \in RequestIds, k \in DOMAIN Payloads : UpdatePlayer(id, k)
  \/ Quiet /\ \E id \in RequestIds, g \in GenOutcomes : GetOrGenerate(id, g)
  \/ Return

Spec == Init /\ [][Next]_vars

\* Callers that interleave: each may be inside sync() while the others sync,
\* edit or create.
NextRace ==
  \/ \E p \in Callers, k \in RaceSources : SyncFetch(p, k, FALSE)
  \/ \E p \in Callers : SyncSelectId(p)
  \/ \E p \in Callers : SyncSelectEdited(p)
  \/ \E p \in Callers : SyncUpdate(p)
  \/ \E p \in Callers : SyncInsert(p)
  \/ \E k \in RaceEdits : UpdatePlayerInDb(k)
  \/ \E k \in DOMAIN CreateObjects : SavePlayerToDb(k)
  \/ Return

SpecRace == Init /\ [][NextRace]_vars

---------------------------------------------------------------------------
(* Claims *)

True  == PyBool(TRUE)
False == PyBool(FALSE)

\* Caller p's sync() takes its step out of update_player_in_db, and the
\* UPDATE has committed.
SyncWrote(p) ==
  /\ run[p].pc = "update"
  /\ \/ run'[p].pc = "select_id"
     \/ run'[p].pc = "idle" /\ last'.op = "sync" /\ last'.exc = "none"

\* C1: once a PUT edit of a stored player with a body that is not empty has
\* completed, the stored is_edited of that player is true.
C1_EditSetsFlag ==
  (last.op = "put" /\ last.a \in DOMAIN players /\ DOMAIN Payloads[last.b] # {})
    => players[last.a].is_edited = True

\* C2: a sync() that started on empty storage with a source of one
\* well-formed record ends without error, and storage then holds exactly one
\* row, its triples the source's "third baseman", its walks the source's
\* "a walk", its is_edited false.
C2_SyncCreatesOne ==
  (/\ last.op = "sync"
   /\ last.was_empty
   /\ Fetched[last.a].ok
   /\ Len(Sources[last.a].body) = 1)
    => /\ last.exc = "none"
       /\ Cardinality(DOMAIN players) = 1
       /\ \A id \in DOMAIN players :
            /\ players[id].triples = Sources[last.a].body[1]["third baseman"].v
            /\ players[id].walks = Sources[last.a].body[1]["a walk"].v
            /\ players[id].is_edited = False

\* C3: a sync() that repeats the sync() before it (the same response of the
\* source, no other operation completed in between) ends with the rows it
\* found when it began: the same identities and the same values in every
\* column, is_edited included.
C3_SyncIdempotent ==
  [][\A p \in Callers :
       (run[p].pc # "idle" /\ run'[p].pc = "idle" /\ run[p].rerun)
         => players' = run[p].before]_vars

\* C4: no two stored rows have the same name.
C4_NamesUnique ==
  \A i, j \in DOMAIN players :
    i # j => players[i].player_name # players[j].player_name

\* The errors that reject an argument.
ValidationErrors == {"ValueError"}

\* C5: get_all_players_from_db with a sort key outside hits, home_runs and
\* hits_per_game fails with a validation error, sends no statement and
\* returns no rows.
C5_ListRejectsKey ==
  (last.op = "list" /\ SortKeys[last.a] \notin RouteSortKeys)
    => /\ last.exc \in ValidationErrors
       /\ last.queries = 0
       /\ last.rows = <<>>

\* C6: once a PUT on a stored player with the body {"games": null,
\* "batting_average": null, "is_edited": null} has completed, the row holds
\* games 0, batting_average 0.0 and is_edited false.
C6_UpdateCoercion ==
  (last.op = "put" /\ last.a \in DOMAIN players /\ last.b = 2)
    => /\ players[last.a].games = 0
       /\ players[last.a].batting_average = 0
       /\ players[last.a].is_edited = False

\* C7: a get_or_generate for a stored player that had no cache entry, with
\* the generator answering, has made exactly one request to the generator,
\* has stored the text and returns it.
C7_FirstCallGenerates ==
  (/\ last.op = "describe"
   /\ last.a \in DOMAIN players
   /\ last.pre = "absent"
   /\ last.stage = "none")
    => /\ last.exc = "none"
       /\ last.gens = 1
       /\ last.a \in DOMAIN descriptions
       /\ descriptions[last.a] = last.text

\* A value that is no number: None, or a text float() does not parse.
NonNumeric(x) == x.t = "null" \/ (x.t = "str" /\ ~Strings[x.v].num)

\* An element of the payload that lacks a required key or holds a value
\* that is no number in a statistic field.
Malformed(raw) ==
  \/ \E k \in DOMAIN RawKeyOrder : RawKeyOrder[k] \notin DOMAIN raw
  \/ \E f \in StatFields : RawKey(f) \in DOMAIN raw /\ NonNumeric(raw[RawKey(f)])

\* C8: a sync() whose source holds a malformed element ends in the fetch
\* with the parse error, and has written nothing.
C8_MalformedAbortsFetch ==
  (/\ last.op = "sync"
   /\ Sources[last.a].ok
   /\ \E i \in DOMAIN Sources[last.a].body : Malformed(Sources[last.a].body[i]))
    => /\ last.exc = "ValueError"
       /\ last.stage = "fetch"
       /\ last.writes = 0

\* C9, as claimed: a write of a sync() never takes the is_edited of a row
\* from true, where an edit has put it, to false, however the sync() and the
\* edit interleave.
C9_SyncNeverClearsFlag ==
  [][\A p \in Callers :
       (SyncWrote(p) /\ players[run[p].existing].is_edited = True)
         => players'[run[p].existing].is_edited = True]_vars

\* C9, amended: a write of a sync() stores is_edited true for a player
\* whenever the read of the flag by that run (lines 282-283) returned true,
\* as it does for an edit that committed before the read; an edit that
\* commits between the read and the write is overwritten.
C9_SyncKeepsFlagRead ==
  [][\A p \in Callers :
       (SyncWrote(p) /\ Truthy(run[p].was_edited))
         => players'[run[p].existing].is_edited = True]_vars

\* An edit of Babe Ruth's row has committed is_edited true and home_runs 715,
\* and a sync() still running has since written the source's statistics over
\* the row, which holds is_edited true.
C9_Witness ==
  /\ last.op = "update"
  /\ last.a = 1
  /\ last.exc = "none"
  /\ 1 \in DOMAIN players
  /\ players[1].is_edited = True
  /\ players[1].home_runs = RuthRaw["home run"].v
  /\ \E p \in Callers : run[p].pc # "idle" /\ run[p].i = 2

\* The value of a row under a sort key of the allow-list, as a fraction:
\* hits_per_game is hits over games.
KeyNum(row, key) == IF key = "home_runs" THEN row.home_runs ELSE row.hits
KeyDen(row, key) == IF key = "hits_per_game" THEN row.games ELSE 1

\* C10: get_all_players_from_db with a sort key of the allow-list returns
\* every stored row exactly once, the value of the key never increasing
\* from one row to the next.
C10_ListSortedByKey ==
  (last.op = "list" /\ SortKeys[last.a] \in RouteSortKeys)
    => /\ last.exc = "none"
       /\ Len(last.rows) = Cardinality(DOMAIN players)
       /\ {last.rows[i] : i \in DOMAIN last.rows} = DOMAIN players
       /\ \A i, j \in DOMAIN last.rows :
            i < j =>
              KeyNum(players[last.rows[i]], SortKeys[last.a])
                  * KeyDen(players[last.rows[j]], SortKeys[last.a])
                >= KeyNum(players[last.rows[j]], SortKeys[last.a])
                  * KeyDen(players[last.rows[i]], SortKeys[last.a])

\* C11: every counting statistic of every stored row is at least zero.
C11_CountsNonNegative ==
  \A id \in DOMAIN players :
    \A f \in CountFields : players[id][f] >= 0

\* The storage operations whose result tells the connections they left open.
StorageOps == {"create", "update", "sync"}

\* C12: a storage operation that has ended, with or without an error, has
\* closed every connection it opened.
C12_ConnectionsReleased ==
  last.op \in StorageOps => last.leaked = 0

====
